---- MODULE Spec2Model ----
(***************************************************************************)
(* Model of react-mool-gqless-dataprovider:                                *)
(*   - helpers/queryBatcher.ts  (createQueryBatcher: request, startTimeout,*)
(*     runRequests) together with runOperation of the data provider, which *)
(*     is the only caller of batcher.request;                              *)
(*   - helpers/fixInputData.ts  (fixScalar, fixValue, fixInputData).       *)
(* The remote client (gqlessClient.resolved) and the timer table of the    *)
(* event loop are the environment: a call to resolved() stays in flight    *)
(* until the environment completes it with a result or an error, a timer   *)
(* stays pending until the environment fires it.                           *)
(***************************************************************************)
EXTENDS Integers, Sequences, FiniteSets, TLC

VARIABLES
    queryBatchTimeMS,   \* config.queryBatchTimeMS of createGQlessDataProvider
    ops,                \* the runOperation calls made so far, in call order
    lastMethod,         \* the data provider method of the latest call ("" if none)
    requests,           \* queryBatcher: `requests` (ids of queued entries)
    hTimeout,           \* queryBatcher: `hTimeout` (0 models null)
    timers,             \* handles of the setTimeout timers still pending
    timerSeq,           \* number of setTimeout calls made so far
    cycles,             \* the invocations of runRequests, in start order
    calls,              \* the calls of gqlessClient.resolved, in issue order
    settled,            \* per op: the resolve/reject invocations, in order
    fx,                 \* state of the fixInputData run (see FixSpec)
    vx                  \* state of the validateRequiredInputData run (see ValSpec)

vars == <<queryBatchTimeMS, ops, lastMethod, requests, hTimeout, timers, timerSeq,
          cycles, calls, settled, fx, vx>>

batchVars == <<queryBatchTimeMS, ops, lastMethod, requests, hTimeout, timers,
               timerSeq, cycles, calls, settled>>

-----------------------------------------------------------------------------
(* Bounds *)

\* number of runOperation calls in a behaviour
MaxOps == 3

\* the data the remote side can answer a thunk with
ServerData == {"a", "b"}

\* the configured batch windows explored (50 is the default)
DefaultQueryBatchTimeMS == 50
WindowChoices == {-1, 0, DefaultQueryBatchTimeMS}

Methods == {"getOne", "getList", "create", "update", "delete"}

-----------------------------------------------------------------------------
(* Data provider: runOperation *)

\* defaultGetOne/defaultGetList call runOperation("query", ...),
\* defaultCreate/defaultUpdate/defaultDelete call runOperation("mutation", ...)
KindOfMethod(method) ==
    IF method \in {"getOne", "getList"} THEN "query" ELSE "mutation"

shouldBatchAnyKind(kind, batchTimeMS) == batchTimeMS > 0

\* const shouldBatch = kind === "query" && queryBatchTimeMS > 0
shouldBatch(kind, batchTimeMS) == kind = "query" /\ batchTimeMS > 0

-----------------------------------------------------------------------------
(* Values travelling through promises *)

NoValue == [tag |-> "pending", id |-> 0, d |-> ""]

\* what the thunk of entry e returns when the remote side answers d
FuncReturn(e, d) == [tag |-> "val", id |-> e, d |-> d]

\* the error raised by the combined execution of cycle c
CombinedError(c) == [tag |-> "err", id |-> c, d |-> "combined"]

\* the error raised by the individual execution of the thunk of entry e
SingleError(e) == [tag |-> "err", id |-> e, d |-> "single"]

\* reqs.map((req) => req.func()) under the remote answers `data`
CombinedResults(reqs, data) ==
    [j \in 1..Len(reqs) |-> FuncReturn(reqs[j], data[j])]

Settle(s, e, type, val) ==
    [s EXCEPT ![e] = Append(@, [type |-> type, val |-> val])]

ResultAtFirst(results, j) == results[1]

\* the `res` handed to the callback of results.forEach at index j
ResultAt(results, j) == results[j]

RECURSIVE forEachResolve(_, _, _, _)
\* results.forEach((res, i) => { reqs[i].resolve(res) })
forEachResolve(s, reqs, results, j) ==
    IF j > Len(results)
    THEN s
    ELSE forEachResolve(Settle(s, reqs[j], "resolve", ResultAt(results, j)),
                        reqs, results, j + 1)

-----------------------------------------------------------------------------
(* queryBatcher: request / startTimeout *)

ShouldStartTimeoutAlways(h) == TRUE

\* if (hTimeout === null) { startTimeout() }
ShouldStartTimeout(h) == h = 0

HandleKept(h) == h

\* hTimeout = null, first statement of the timer callback
HandleAfterFire(h) == 0

QueueKept(q) == q

\* requests = [] in runRequests
QueueAfterSnapshot(q) == <<>>

RejectsDirectlyAlways(reqs) == TRUE

RejectsDirectlyNever(reqs) == FALSE

\* if (reqs.length === 1) in the catch block of runRequests
RejectsDirectly(reqs) == Len(reqs) = 1

NewCall(type, c, e) == [type |-> type, cycle |-> c, entry |-> e, out |-> NoValue]

InFlight(k) == k \in 1..Len(calls) /\ calls[k].out = NoValue

\* runOperation(kind, operation, resource, params) for a default method.
\* `valid` is whether gqlessClient[kind][funcName] is a function.
runOperation(method, valid) ==
    LET kind == KindOfMethod(method)
        e    == Len(ops) + 1
        op(route, h) == [kind |-> kind, route |-> route,
                         epoch |-> Len(cycles), timer |-> h]
    IN
    /\ Len(ops) < MaxOps
    /\ lastMethod' = method
    /\ IF ~valid
       THEN \* throw new Error(`"${funcName}" is not a valid ...`)
            /\ ops' = Append(ops, op("threw", 0))
            /\ settled' = Append(settled, <<>>)
            /\ UNCHANGED <<requests, hTimeout, timers, timerSeq, calls>>
       ELSE IF shouldBatch(kind, queryBatchTimeMS)
       THEN \* batcher.request(request)
            /\ requests' = Append(requests, e)
            /\ IF ShouldStartTimeout(hTimeout)
               THEN \* startTimeout(): hTimeout = setTimeout(...)
                    /\ timerSeq' = timerSeq + 1
                    /\ hTimeout' = timerSeq + 1
                    /\ timers' = timers \cup {timerSeq + 1}
               ELSE UNCHANGED <<hTimeout, timers, timerSeq>>
            /\ ops' = Append(ops, op("batched", hTimeout'))
            /\ settled' = Append(settled, <<>>)
            /\ UNCHANGED calls
       ELSE \* gqlessClient.resolved(request, {noCache, retry: false})
            /\ calls' = Append(calls, NewCall("direct", 0, e))
            /\ ops' = Append(ops, op("direct", 0))
            /\ settled' = Append(settled, <<>>)
            /\ UNCHANGED <<requests, hTimeout, timers, timerSeq>>
    /\ UNCHANGED <<queryBatchTimeMS, cycles, fx, vx>>

\* the setTimeout callback: hTimeout = null; runRequests() up to its first
\* await (snapshot, clear, issue the combined call)
TimerFire(t) ==
    /\ t \in timers
    /\ timers' = timers \ {t}
    /\ hTimeout' = HandleAfterFire(hTimeout)
    /\ requests' = QueueAfterSnapshot(requests)
    /\ cycles' = Append(cycles, [reqs |-> requests, timer |-> t,
                                 phase |-> "combined", results |-> <<>>])
    /\ calls' = Append(calls, NewCall("combined", Len(cycles) + 1, 0))
    /\ UNCHANGED <<queryBatchTimeMS, ops, lastMethod, timerSeq, settled, fx, vx>>

\* the combined call of cycle c succeeds: runRequests resumes in the try block
CombinedSucceeds(k, data) ==
    /\ InFlight(k)
    /\ calls[k].type = "combined"
    /\ LET c       == calls[k].cycle
           reqs    == cycles[c].reqs
           results == CombinedResults(reqs, data)
       IN /\ DOMAIN data = 1..Len(reqs)
          /\ calls' = [calls EXCEPT ![k].out = [tag |-> "val", id |-> c, d |-> "batch"]]
          /\ settled' = forEachResolve(settled, reqs, results, 1)
          /\ cycles' = [cycles EXCEPT ![c].phase = "done", ![c].results = results]
    /\ UNCHANGED <<queryBatchTimeMS, ops, lastMethod, requests, hTimeout, timers, timerSeq, fx, vx>>

RECURSIVE RetryCalls(_, _, _)
\* reqs.map(async (req) => { ... await gqlessClient.resolved(req.func, ...) })
RetryCalls(c, reqs, j) ==
    IF j > Len(reqs) THEN <<>>
    ELSE <<NewCall("single", c, reqs[j])>> \o RetryCalls(c, reqs, j + 1)

RECURSIVE RejectEach(_, _, _, _)
RejectEach(s, reqs, err, j) ==
    IF j > Len(reqs) THEN s
    ELSE RejectEach(Settle(s, reqs[j], "reject", err), reqs, err, j + 1)

CombinedFailsRejectAll(k) ==
    /\ InFlight(k)
    /\ calls[k].type = "combined"
    /\ LET c    == calls[k].cycle
           reqs == cycles[c].reqs
           err  == CombinedError(c)
           done == [calls EXCEPT ![k].out = err]
       IN /\ settled' = RejectEach(settled, reqs, err, 1)
          /\ IF RejectsDirectly(reqs)
             THEN /\ calls' = done
                  /\ cycles' = [cycles EXCEPT ![c].phase = "done"]
             ELSE /\ calls' = done \o RetryCalls(c, reqs, 1)
                  /\ cycles' = [cycles EXCEPT ![c].phase =
                                   IF Len(reqs) = 0 THEN "done" ELSE "retrying"]
    /\ UNCHANGED <<queryBatchTimeMS, ops, lastMethod, requests, hTimeout, timers, timerSeq, fx, vx>>

CombinedFailsRequeue(k) ==
    /\ InFlight(k)
    /\ calls[k].type = "combined"
    /\ LET c    == calls[k].cycle
           reqs == cycles[c].reqs
           err  == CombinedError(c)
       IN /\ calls' = [calls EXCEPT ![k].out = err]
          /\ cycles' = [cycles EXCEPT ![c].phase = "done"]
          /\ IF RejectsDirectly(reqs)
             THEN /\ settled' = Settle(settled, reqs[1], "reject", err)
                  /\ UNCHANGED <<requests, hTimeout, timers, timerSeq>>
             ELSE /\ requests' = requests \o reqs
                  /\ IF ShouldStartTimeout(hTimeout)
                     THEN /\ timerSeq' = timerSeq + 1
                          /\ hTimeout' = timerSeq + 1
                          /\ timers' = timers \cup {timerSeq + 1}
                     ELSE UNCHANGED <<hTimeout, timers, timerSeq>>
                  /\ UNCHANGED settled
    /\ UNCHANGED <<queryBatchTimeMS, ops, lastMethod, fx, vx>>

\* the combined call of cycle c fails: runRequests resumes in the catch block
CombinedFails(k) ==
    /\ InFlight(k)
    /\ calls[k].type = "combined"
    /\ LET c    == calls[k].cycle
           reqs == cycles[c].reqs
           err  == CombinedError(c)
           done == [calls EXCEPT ![k].out = err]
       IN IF RejectsDirectly(reqs)
          THEN /\ settled' = Settle(settled, reqs[1], "reject", err)
               /\ calls' = done
               /\ cycles' = [cycles EXCEPT ![c].phase = "done"]
          ELSE /\ calls' = done \o RetryCalls(c, reqs, 1)
               /\ cycles' = [cycles EXCEPT ![c].phase =
                                IF Len(reqs) = 0 THEN "done" ELSE "retrying"]
               /\ UNCHANGED settled
    /\ UNCHANGED <<queryBatchTimeMS, ops, lastMethod, requests, hTimeout, timers, timerSeq, fx, vx>>

\* phase of cycle c once call k has completed (Promise.all over the retries)
PhaseAfter(c, k) ==
    IF \E k2 \in 1..Len(calls) :
          k2 # k /\ calls[k2].type = "single" /\ calls[k2].cycle = c /\ InFlight(k2)
    THEN "retrying" ELSE "done"

\* an individual retry succeeds: req.resolve(result)
RetrySucceeds(k, d) ==
    /\ InFlight(k)
    /\ calls[k].type = "single"
    /\ LET e == calls[k].entry
           c == calls[k].cycle
           v == FuncReturn(e, d)
       IN /\ calls' = [calls EXCEPT ![k].out = v]
          /\ settled' = Settle(settled, e, "resolve", v)
          /\ cycles' = [cycles EXCEPT ![c].phase = PhaseAfter(c, k)]
    /\ UNCHANGED <<queryBatchTimeMS, ops, lastMethod, requests, hTimeout, timers, timerSeq, fx, vx>>

\* an individual retry fails: req.reject(reqErr)
RetryFails(k) ==
    /\ InFlight(k)
    /\ calls[k].type = "single"
    /\ LET e == calls[k].entry
           c == calls[k].cycle
           v == SingleError(e)
       IN /\ calls' = [calls EXCEPT ![k].out = v]
          /\ settled' = Settle(settled, e, "reject", v)
          /\ cycles' = [cycles EXCEPT ![c].phase = PhaseAfter(c, k)]
    /\ UNCHANGED <<queryBatchTimeMS, ops, lastMethod, requests, hTimeout, timers, timerSeq, fx, vx>>

\* a call issued by runOperation outside the batcher completes; its promise
\* is the one runOperation returned
DirectSucceeds(k, d) ==
    /\ InFlight(k)
    /\ calls[k].type = "direct"
    /\ LET e == calls[k].entry
           v == FuncReturn(e, d)
       IN /\ calls' = [calls EXCEPT ![k].out = v]
          /\ settled' = Settle(settled, e, "resolve", v)
    /\ UNCHANGED <<queryBatchTimeMS, ops, lastMethod, requests, hTimeout, timers, timerSeq,
                   cycles, fx, vx>>

DirectFails(k) ==
    /\ InFlight(k)
    /\ calls[k].type = "direct"
    /\ LET e == calls[k].entry
           v == SingleError(e)
       IN /\ calls' = [calls EXCEPT ![k].out = v]
          /\ settled' = Settle(settled, e, "reject", v)
    /\ UNCHANGED <<queryBatchTimeMS, ops, lastMethod, requests, hTimeout, timers, timerSeq,
                   cycles, fx, vx>>

-----------------------------------------------------------------------------
(* Specification of the batcher behind the data provider *)

FxIdle == [pc |-> "idle"]
VxIdle == [pc |-> "idle"]

\* createGQlessDataProvider(config) / createQueryBatcher(config)
Init ==
    /\ queryBatchTimeMS \in WindowChoices
    /\ ops = <<>>
    /\ lastMethod = ""
    /\ requests = <<>>
    /\ hTimeout = 0
    /\ timers = {}
    /\ timerSeq = 0
    /\ cycles = <<>>
    /\ calls = <<>>
    /\ settled = <<>>
    /\ fx = FxIdle
    /\ vx = VxIdle

CallIds == DOMAIN calls

Next ==
    \/ \E m \in Methods, valid \in BOOLEAN : runOperation(m, valid)
    \/ \E t \in timers : TimerFire(t)
    \/ \E k \in CallIds, data \in UNION {[1..n -> ServerData] : n \in 0..MaxOps} :
            CombinedSucceeds(k, data)
    \/ \E k \in CallIds : CombinedFails(k)
    \/ \E k \in CallIds, d \in ServerData : RetrySucceeds(k, d)
    \/ \E k \in CallIds : RetryFails(k)
    \/ \E k \in CallIds, d \in ServerData : DirectSucceeds(k, d)
    \/ \E k \in CallIds : DirectFails(k)

Spec == Init /\ [][Next]_vars

\* the timer eventually fires and every call of gqlessClient.resolved
\* eventually succeeds or fails
RemoteCompletes ==
    \/ \E k \in CallIds, data \in UNION {[1..n -> ServerData] : n \in 0..MaxOps} :
            CombinedSucceeds(k, data)
    \/ \E k \in CallIds : CombinedFails(k)
    \/ \E k \in CallIds, d \in ServerData : RetrySucceeds(k, d)
    \/ \E k \in CallIds : RetryFails(k)
    \/ \E k \in CallIds, d \in ServerData : DirectSucceeds(k, d)
    \/ \E k \in CallIds : DirectFails(k)

Fairness ==
    /\ WF_vars(\E t \in timers : TimerFire(t))
    /\ WF_vars(RemoteCompletes)

FairSpec == Init /\ [][Next]_vars /\ Fairness

-----------------------------------------------------------------------------
(* Vocabulary of the batcher properties *)

Batched(e) == e \in DOMAIN ops /\ ops[e].route = "batched"

CombinedCallOf(c) ==
    CHOOSE k \in DOMAIN calls : calls[k].type = "combined" /\ calls[k].cycle = c

CycleSucceeded(c) == calls[CombinedCallOf(c)].out.tag = "val"

CycleFailed(c) == calls[CombinedCallOf(c)].out.tag = "err"

RetriesOf(c, e) ==
    {k \in DOMAIN calls :
        calls[k].type = "single" /\ calls[k].cycle = c /\ calls[k].entry = e}

Positions(seq, e) == {j \in DOMAIN seq : seq[j] = e}

SnapshotsOf(e) ==
    {cj \in (DOMAIN cycles) \X (1..MaxOps) :
        cj[2] \in DOMAIN cycles[cj[1]].reqs /\ cycles[cj[1]].reqs[cj[2]] = e}

SettlementFor(out) ==
    IF out = NoValue THEN <<>>
    ELSE <<[type |-> IF out.tag = "val" THEN "resolve" ELSE "reject", val |-> out]>>

-----------------------------------------------------------------------------
(* C1: when the combined execution of a cycle succeeds with results       *)
(* [r0..rn-1], the entry submitted at index i is resolved exactly once,    *)
(* with ri, which is the return of its own thunk, and no entry of the      *)
(* cycle is rejected.                                                      *)
C1_PositionalResults ==
    \A c \in DOMAIN cycles :
        CycleSucceeded(c) =>
            /\ Len(cycles[c].results) = Len(cycles[c].reqs)
            /\ \A j \in DOMAIN cycles[c].reqs :
                  /\ cycles[c].results[j].tag = "val"
                  /\ cycles[c].results[j].id = cycles[c].reqs[j]
                  /\ settled[cycles[c].reqs[j]] =
                        <<[type |-> "resolve", val |-> cycles[c].results[j]]>>

C1_Witness ==
    \E c \in DOMAIN cycles :
        /\ CycleSucceeded(c)
        /\ Len(cycles[c].reqs) >= 2
        /\ cycles[c].results[1].d # cycles[c].results[2].d
        /\ settled[cycles[c].reqs[2]] # <<>>

(* C2: when the combined execution of a cycle of two or more entries      *)
(* fails, one individual call is issued per entry, the combined error      *)
(* reaches no caller, and each entry's settlement is determined by the     *)
(* outcome of its own retry alone: unsettled while the retry is in flight, *)
(* resolved with its result or rejected with its error afterwards.         *)
C2_RetryIndependent ==
    \A c \in DOMAIN cycles :
        (CycleFailed(c) /\ Len(cycles[c].reqs) >= 2) =>
            \A j \in DOMAIN cycles[c].reqs :
                LET e == cycles[c].reqs[j] IN
                /\ Cardinality(RetriesOf(c, e)) = 1
                /\ \A k \in RetriesOf(c, e) :
                      /\ settled[e] = SettlementFor(calls[k].out)
                      /\ calls[k].out # NoValue => calls[k].out.id = e
                /\ \A n \in DOMAIN settled[e] :
                      settled[e][n].val # CombinedError(c)

C2_Witness ==
    \E c \in DOMAIN cycles :
        /\ CycleFailed(c)
        /\ Len(cycles[c].reqs) >= 2
        /\ settled[cycles[c].reqs[1]] =
              <<[type |-> "resolve", val |-> FuncReturn(cycles[c].reqs[1], "a")]>>
        /\ settled[cycles[c].reqs[2]] =
              <<[type |-> "reject", val |-> SingleError(cycles[c].reqs[2])]>>

(* C3: when the combined execution of a cycle holding exactly one entry    *)
(* fails, that entry is rejected with the error of the combined execution  *)
(* and no individual call is issued for it.                                *)
C3_SingleEntryFailure ==
    \A c \in DOMAIN cycles :
        (CycleFailed(c) /\ Len(cycles[c].reqs) = 1) =>
            /\ settled[cycles[c].reqs[1]] =
                  <<[type |-> "reject", val |-> CombinedError(c)]>>
            /\ \A k \in DOMAIN calls :
                  calls[k].type = "single" =>
                      /\ calls[k].cycle # c
                      /\ calls[k].entry # cycles[c].reqs[1]
            /\ cycles[c].phase = "done"

C3_Witness ==
    \E c \in DOMAIN cycles :
        /\ CycleFailed(c)
        /\ Len(cycles[c].reqs) = 1
        /\ settled[cycles[c].reqs[1]] # <<>>

(* C4: every entry submitted to the batcher is, at any time, either in the *)
(* pending queue (once, with a timer armed to flush it) or in the snapshot *)
(* of exactly one cycle, and that cycle is the first one started after the *)
(* entry was submitted: never a cycle whose snapshot was already taken.    *)
(* Every call and every result of a cycle concerns entries of its own      *)
(* snapshot only.                                                          *)
C4_OneSnapshotPerEntry ==
    /\ \A e \in DOMAIN ops :
          Batched(e) =>
              /\ Cardinality(Positions(requests, e)) + Cardinality(SnapshotsOf(e)) = 1
              /\ \A cj \in SnapshotsOf(e) : cj[1] = ops[e].epoch + 1
              /\ Positions(requests, e) # {} =>
                    /\ ops[e].epoch = Len(cycles)
                    /\ hTimeout # 0
                    /\ hTimeout \in timers
    /\ \A k \in DOMAIN calls :
          calls[k].type = "single" =>
              Positions(cycles[calls[k].cycle].reqs, calls[k].entry) # {}
    /\ \A c \in DOMAIN cycles :
          Len(cycles[c].results) \in {0, Len(cycles[c].reqs)}

C4_Witness ==
    \E e \in DOMAIN ops :
        /\ Batched(e)
        /\ ops[e].epoch = 1
        /\ Len(cycles) >= 2
        /\ Positions(cycles[2].reqs, e) # {}
        /\ cycles[1].phase = "combined"
        /\ cycles[2].phase = "done"

(* C5: under the fairness of FairSpec (a pending timer eventually fires,   *)
(* every remote call eventually completes), every entry submitted to the   *)
(* batcher is eventually resolved or rejected.                             *)
C5_EventuallySettled ==
    \A e \in 1..MaxOps : [](Batched(e) => <>(Batched(e) /\ settled[e] # <<>>))

C5_Witness ==
    \E c \in DOMAIN cycles :
        /\ CycleFailed(c)
        /\ Len(cycles[c].reqs) >= 2
        /\ cycles[c].phase = "done"
        /\ \A j \in DOMAIN cycles[c].reqs : settled[cycles[c].reqs[j]] # <<>>

SubmitStep ==
    /\ Len(ops') = Len(ops) + 1
    /\ ops'[Len(ops')].route = "batched"

(* C6: a submit made while no timer is pending arms exactly one new timer; *)
(* a submit made while a timer is pending appends to the queue and leaves  *)
(* the handle and the pending timers as they are.  At most one timer is    *)
(* pending at any time, and every cycle is flushed by the timer that was   *)
(* pending when its entries joined, which is the one its first entry armed.*)
C6_SingleTimer ==
    /\ [](/\ Cardinality(timers) <= 1
          /\ \A c \in DOMAIN cycles :
                \A j \in DOMAIN cycles[c].reqs :
                    ops[cycles[c].reqs[j]].timer = cycles[c].timer
          /\ \A c1, c2 \in DOMAIN cycles :
                c1 # c2 => cycles[c1].timer # cycles[c2].timer)
    /\ [][SubmitStep =>
            /\ requests' = Append(requests, Len(ops'))
            /\ IF hTimeout = 0
               THEN /\ hTimeout' # 0
                    /\ hTimeout' \notin timers
                    /\ timers' = timers \cup {hTimeout'}
                    /\ \A c \in DOMAIN cycles : cycles[c].timer # hTimeout'
               ELSE /\ hTimeout' = hTimeout
                    /\ timers' = timers]_vars

C6_Witness ==
    \E c \in DOMAIN cycles :
        /\ Len(cycles[c].reqs) >= 3
        /\ c >= 1

(* C7: among the operations whose name is a function of the client (the    *)
(* others throw before anything is issued), a getOne or getList with a     *)
(* window greater than 0 is submitted to the batcher, while a create,      *)
(* update or delete, and any operation under a window of 0 or less, is     *)
(* executed as its own remote call, is never queued, is in no cycle, and   *)
(* arms no timer.                                                          *)
C7_OnlyQueriesBatched ==
    /\ Len(ops) > 0 =>
          LET o == ops[Len(ops)] IN
          /\ lastMethod \in {"create", "update", "delete"} =>
                o.route \in {"direct", "threw"}
          /\ (lastMethod \in {"getOne", "getList"} /\ queryBatchTimeMS > 0) =>
                o.route \in {"batched", "threw"}
          /\ (lastMethod \in {"getOne", "getList"} /\ queryBatchTimeMS <= 0) =>
                o.route \in {"direct", "threw"}
    /\ \A e \in DOMAIN ops :
          /\ ops[e].route = "batched" <=>
                (Positions(requests, e) # {} \/ SnapshotsOf(e) # {})
          /\ ops[e].route = "batched" =>
                (ops[e].kind = "query" /\ queryBatchTimeMS > 0)
          /\ ops[e].route = "direct" <=>
                Cardinality({k \in DOMAIN calls :
                    calls[k].type = "direct" /\ calls[k].entry = e}) = 1
          /\ ops[e].route = "threw" =>
                \A k \in DOMAIN calls : calls[k].entry # e
    /\ timerSeq <= Cardinality({e \in DOMAIN ops : ops[e].route = "batched"})

C7_Witness ==
    /\ Len(ops) >= 3
    /\ ops[1].route = "batched"
    /\ ops[2].kind = "mutation" /\ ops[2].route = "direct"
    /\ ops[3].route = "batched"
    /\ hTimeout # 0
    /\ lastMethod = "getList"

(* C15: between events a timer is pending exactly when the queue is       *)
(* non-empty: no handle, no pending timer and an empty queue when Idle; a  *)
(* handle, that one timer pending and at least one queued entry when       *)
(* Collecting; no cycle was ever flushed with an empty snapshot.           *)
C15_TimerIffQueue ==
    /\ (hTimeout # 0) <=> (requests # <<>>)
    /\ timers = IF hTimeout = 0 THEN {} ELSE {hTimeout}
    /\ \A c \in DOMAIN cycles : cycles[c].reqs # <<>>

C15_Witness ==
    /\ Len(cycles) >= 1
    /\ hTimeout # 0
    /\ requests # <<>>
    /\ cycles[1].phase = "done"

\* the step in which the combined call of a multi-entry cycle fails
MultiFailStep ==
    \E k \in DOMAIN calls :
        /\ calls[k].type = "combined"
        /\ calls[k].out = NoValue
        /\ calls'[k].out.tag = "err"
        /\ Len(cycles[calls[k].cycle].reqs) >= 2

\* a step in which an individual retry completes
RetryDoneStep ==
    \E k \in DOMAIN calls :
        /\ calls[k].type = "single"
        /\ calls[k].out = NoValue
        /\ calls'[k].out # NoValue

\* the settlement came out of a call issued by the cycle c of the entry
FromOwnCycle(st, c) ==
    \/ st.val = CombinedError(c)
    \/ \E j \in DOMAIN cycles[c].results : cycles[c].results[j] = st.val
    \/ \E k \in DOMAIN calls :
          calls[k].type = "single" /\ calls[k].cycle = c /\ calls[k].out = st.val

(* C16: the retries after a failed multi-entry combined call bypass the    *)
(* batcher: issuing them and completing them leaves the queue, the handle  *)
(* and the pending timers unchanged and starts no cycle; each retry is an  *)
(* individual call for one entry of the failed cycle, which is in no other *)
(* cycle and not in the queue; every entry is settled only by calls of its *)
(* own cycle, so entries submitted meanwhile do not depend on the retries. *)
C16_RetriesBypassBatcher ==
    /\ [][(MultiFailStep \/ RetryDoneStep) =>
            /\ UNCHANGED <<requests, hTimeout, timers, timerSeq>>
            /\ Len(cycles') = Len(cycles)
            /\ \A c \in DOMAIN cycles : cycles'[c].reqs = cycles[c].reqs]_vars
    /\ [][MultiFailStep =>
            \E k \in DOMAIN calls :
                /\ calls[k].type = "combined" /\ calls[k].out = NoValue
                /\ calls'[k].out.tag = "err"
                /\ Len(calls') = Len(calls) + Len(cycles[calls[k].cycle].reqs)
                /\ \A k2 \in (DOMAIN calls') \ (DOMAIN calls) :
                      calls'[k2].type = "single"]_vars
    /\ [](\A k \in DOMAIN calls :
            calls[k].type = "single" =>
                /\ CycleFailed(calls[k].cycle)
                /\ Positions(cycles[calls[k].cycle].reqs, calls[k].entry) # {}
                /\ Positions(requests, calls[k].entry) = {}
                /\ \A c \in DOMAIN cycles :
                      c # calls[k].cycle => Positions(cycles[c].reqs, calls[k].entry) = {})
    /\ [](\A c \in DOMAIN cycles : \A j \in DOMAIN cycles[c].reqs :
            \A n \in DOMAIN settled[cycles[c].reqs[j]] :
                FromOwnCycle(settled[cycles[c].reqs[j]][n], c))

C16_Witness ==
    /\ Len(cycles) >= 2
    /\ cycles[1].phase = "retrying"
    /\ \E k \in DOMAIN calls :
          calls[k].type = "single" /\ calls[k].cycle = 1 /\ calls[k].out = NoValue
    /\ cycles[2].phase = "done"
    /\ settled[cycles[2].reqs[1]] # <<>>

(* C17: the batcher invokes at most one settlement callback per entry: no  *)
(* entry is resolved twice, rejected twice, or both resolved and rejected, *)
(* on any path.                                                            *)
C17_SettledAtMostOnce ==
    \A e \in DOMAIN settled : Batched(e) => Len(settled[e]) <= 1

C17_Witness ==
    \E c \in DOMAIN cycles :
        /\ CycleFailed(c)
        /\ Len(cycles[c].reqs) >= 2
        /\ cycles[c].phase = "done"
        /\ \A j \in DOMAIN cycles[c].reqs : Len(settled[cycles[c].reqs[j]]) = 1
        /\ \E e \in DOMAIN ops : Batched(e) /\ ops[e].epoch >= c /\ Len(settled[e]) = 1

-----------------------------------------------------------------------------
(* JavaScript values of the Input Fixer                                    *)
(* A number is kept in tenths (15 is 1.5) with its class: finite, NaN or   *)
(* an infinity; a string is its sequence of characters; an object is a     *)
(* function from its own enumerable keys to values.                        *)

Null == [k |-> "null"]
Undefined == [k |-> "undef"]
Num(n) == [k |-> "num", c |-> "fin", n |-> n]
NaN == [k |-> "num", c |-> "nan", n |-> 0]
Infinity == [k |-> "num", c |-> "inf", n |-> 0]
NegInfinity == [k |-> "num", c |-> "ninf", n |-> 0]
Str(s) == [k |-> "str", s |-> s]
Bool(b) == [k |-> "bool", b |-> b]
Arr(items) == [k |-> "arr", items |-> items]
Obj(f) == [k |-> "obj", f |-> f]

\* value == null
IsNullish(v) == v.k \in {"null", "undef"}

DigitChars == <<"0", "1", "2", "3", "4", "5", "6", "7", "8", "9">>
IsDigit(ch) == \E i \in DOMAIN DigitChars : DigitChars[i] = ch
DigitVal(ch) == (CHOOSE i \in DOMAIN DigitChars : DigitChars[i] = ch) - 1

InfinityChars == <<"I", "n", "f", "i", "n", "i", "t", "y">>
ObjectChars == <<"[", "o", "b", "j", "e", "c", "t", " ",
                 "O", "b", "j", "e", "c", "t", "]">>

RECURSIVE DigitsValue(_)
\* value of a sequence of decimal digits (0 for the empty one)
DigitsValue(s) ==
    IF s = <<>> THEN 0
    ELSE 10 * DigitsValue(SubSeq(s, 1, Len(s) - 1)) + DigitVal(s[Len(s)])

AllDigits(s) == \A i \in DOMAIN s : IsDigit(s[i])

RECURSIVE Trim(_)
Trim(s) ==
    IF s = <<>> THEN s
    ELSE IF s[1] = " " THEN Trim(Tail(s))
    ELSE IF s[Len(s)] = " " THEN Trim(SubSeq(s, 1, Len(s) - 1))
    ELSE s

\* StringToNumber of an unsigned literal: digits, at most one "." and at
\* most one fractional digit (finer fractions are outside the number model)
UnsignedToNumber(s) ==
    LET dots == {i \in DOMAIN s : s[i] = "."} IN
    IF s = InfinityChars THEN Infinity
    ELSE IF dots = {} THEN
        IF s # <<>> /\ AllDigits(s) THEN Num(10 * DigitsValue(s)) ELSE NaN
    ELSE IF Cardinality(dots) = 1 THEN
        LET p    == CHOOSE i \in dots : TRUE
            ip   == SubSeq(s, 1, p - 1)
            frac == SubSeq(s, p + 1, Len(s))
        IN IF /\ AllDigits(ip) /\ AllDigits(frac)
              /\ Len(ip) + Len(frac) > 0 /\ Len(frac) <= 1
           THEN Num(10 * DigitsValue(ip) + DigitsValue(frac))
           ELSE NaN
    ELSE NaN

Negate(v) ==
    IF v.c = "fin" THEN Num(0 - v.n)
    ELSE IF v.c = "inf" THEN NegInfinity
    ELSE IF v.c = "ninf" THEN Infinity
    ELSE v

\* Number(string)
StringToNumber(str) ==
    LET s == Trim(str) IN
    IF s = <<>> THEN Num(0)
    ELSE IF s[1] = "-" THEN Negate(UnsignedToNumber(Tail(s)))
    ELSE IF s[1] = "+" THEN UnsignedToNumber(Tail(s))
    ELSE UnsignedToNumber(s)

RECURSIVE NatToChars(_)
NatToChars(n) ==
    IF n < 10 THEN <<DigitChars[n + 1]>>
    ELSE NatToChars(n \div 10) \o <<DigitChars[(n % 10) + 1]>>

\* String(number)
NumberToString(v) ==
    IF v.c = "nan" THEN <<"N", "a", "N">>
    ELSE IF v.c = "inf" THEN InfinityChars
    ELSE IF v.c = "ninf" THEN <<"-">> \o InfinityChars
    ELSE LET a    == IF v.n < 0 THEN 0 - v.n ELSE v.n
             sign == IF v.n < 0 THEN <<"-">> ELSE <<>>
             frac == IF a % 10 = 0 THEN <<>> ELSE <<".", DigitChars[(a % 10) + 1]>>
         IN sign \o NatToChars(a \div 10) \o frac

RECURSIVE ToStringJS(_)
RECURSIVE JoinItems(_)
\* Array.prototype.join(","): null and undefined items give ""
JoinItems(items) ==
    IF items = <<>> THEN <<>>
    ELSE LET one == IF IsNullish(items[1]) THEN <<>> ELSE ToStringJS(items[1])
         IN IF Len(items) = 1 THEN one
            ELSE one \o <<",">> \o JoinItems(Tail(items))

\* String(value)
ToStringJS(v) ==
    CASE v.k = "str"   -> v.s
      [] v.k = "num"   -> NumberToString(v)
      [] v.k = "bool"  -> IF v.b THEN <<"t", "r", "u", "e">>
                                 ELSE <<"f", "a", "l", "s", "e">>
      [] v.k = "null"  -> <<"n", "u", "l", "l">>
      [] v.k = "undef" -> <<"u", "n", "d", "e", "f", "i", "n", "e", "d">>
      [] v.k = "arr"   -> JoinItems(v.items)
      [] v.k = "obj"   -> ObjectChars

\* Number(value)
ToNumberJS(v) ==
    CASE v.k = "num"   -> v
      [] v.k = "str"   -> StringToNumber(v.s)
      [] v.k = "bool"  -> IF v.b THEN Num(10) ELSE Num(0)
      [] v.k = "null"  -> Num(0)
      [] v.k = "undef" -> NaN
      [] v.k = "arr"   -> StringToNumber(ToStringJS(v))
      [] v.k = "obj"   -> NaN

\* Boolean(value)
ToBooleanJS(v) ==
    CASE v.k = "bool"  -> v.b
      [] v.k = "num"   -> ~(v.c = "nan" \/ (v.c = "fin" /\ v.n = 0))
      [] v.k = "str"   -> v.s # <<>>
      [] v.k \in {"null", "undef"} -> FALSE
      [] v.k \in {"arr", "obj"} -> TRUE

\* Math.round(number): nearest integer, ties towards +Infinity
MathRound(v) ==
    IF v.c = "fin" THEN Num(((v.n + 5) \div 10) * 10) ELSE v

\* Number.isInteger(value)
NumberIsInteger(v) == v.k = "num" /\ v.c = "fin" /\ v.n % 10 = 0

-----------------------------------------------------------------------------
(* Schema and type names                                                   *)
(* A type name is its sequence of tokens: "[Int!]!" is                     *)
(* <<"[", "Int", "!", "]", "!">>.                                          *)

Named(n) == <<n>>
NonNull(t) == Append(t, "!")
ListOf(t) == <<"[">> \o t \o <<"]">>

\* parseSchemaType of gqless: strip a trailing "!", then the brackets of a
\* list, then the trailing "!" of the item type
ParseSchemaType(typeName) ==
    LET nn  == typeName # <<>> /\ typeName[Len(typeName)] = "!"
        t1  == IF nn THEN SubSeq(typeName, 1, Len(typeName) - 1) ELSE typeName
        arr == t1 # <<>> /\ t1[1] = "["
        t2  == IF arr THEN SubSeq(t1, 2, Len(t1) - 1) ELSE t1
        nni == arr /\ t2 # <<>> /\ t2[Len(t2)] = "!"
        t3  == IF nni THEN SubSeq(t2, 1, Len(t2) - 1) ELSE t2
    IN [pureType |-> t3, isArray |-> arr, isNullable |-> ~nn,
        nullableItems |-> ~nni]

\* const scalars = ["Int", "Float", "String", "Boolean", "ID"]
scalars == {"Int", "Float", "String", "Boolean", "ID"}

\* isScalar(typeName)
isScalar(pureType) == Len(pureType) = 1 /\ pureType[1] \in scalars

\* isPlainObject(value)
isPlainObject(value) == ~IsNullish(value) /\ value.k # "arr"

\* schema[pureType] is defined
HasTypeObject(schema, pureType) ==
    Len(pureType) = 1 /\ pureType[1] \in DOMAIN schema

\* the keys `for (const key in value)` enumerates: the own keys of an
\* object, the indices of a string, nothing for a number or a boolean
ForInKeys(value) ==
    IF value.k = "obj" THEN DOMAIN value.f
    ELSE IF value.k = "str"
         THEN {DigitChars[i] : i \in {j \in DOMAIN value.s : j <= 10}}
    ELSE {}

\* value[key] for a key that for-in enumerated
GetProp(value, key) ==
    IF value.k = "obj" THEN value.f[key]
    ELSE Str(<<value.s[DigitVal(key) + 1]>>)

FixScalarNoID(value, pureType) ==
    CASE pureType = Named("Int") ->
            IF NumberIsInteger(value) THEN value ELSE MathRound(ToNumberJS(value))
      [] pureType = Named("Float") ->
            IF value.k = "num" THEN value ELSE ToNumberJS(value)
      [] pureType = Named("String") ->
            IF value.k = "str" THEN value ELSE Str(ToStringJS(value))
      [] pureType = Named("Boolean") ->
            IF value.k = "bool" THEN value ELSE Bool(ToBooleanJS(value))
      [] OTHER -> value

\* fixScalar(value, typeName)
FixScalar(value, pureType) ==
    CASE pureType = Named("Int") ->
            IF NumberIsInteger(value) THEN value ELSE MathRound(ToNumberJS(value))
      [] pureType = Named("Float") ->
            IF value.k = "num" THEN value ELSE ToNumberJS(value)
      [] pureType \in {Named("String"), Named("ID")} ->
            IF value.k = "str" THEN value ELSE Str(ToStringJS(value))
      [] pureType = Named("Boolean") ->
            IF value.k = "bool" THEN value ELSE Bool(ToBooleanJS(value))
      [] OTHER -> value

WrapValue(value) == Arr(<<value>>)

\* "Skip value if it is not an array": return undefined
SkipValue(value) == Undefined

RECURSIVE FixValue(_, _, _)

FixObjectKeepAll(value, typeObject, schema) ==
    Obj([key \in ForInKeys(value) |->
            IF key \in DOMAIN typeObject
            THEN FixValue(GetProp(value, key), typeObject[key], schema)
            ELSE GetProp(value, key)])

\* the loop "Fix every field" of fixValue: only keys that have a type
FixObject(value, typeObject, schema) ==
    Obj([key \in {k \in ForInKeys(value) : k \in DOMAIN typeObject} |->
            FixValue(GetProp(value, key), typeObject[key], schema)])

\* fixValue(value, typeName, schema)
FixValue(value, typeName, schema) ==
    IF IsNullish(value) THEN value
    ELSE LET t == ParseSchemaType(typeName) IN
         IF t.isArray THEN
            IF value.k # "arr" THEN SkipValue(value)
            ELSE Arr([i \in DOMAIN value.items |->
                        FixValue(value.items[i], t.pureType, schema)])
         ELSE IF isScalar(t.pureType) THEN FixScalar(value, t.pureType)
         ELSE IF ~HasTypeObject(schema, t.pureType) THEN value
         ELSE IF ~isPlainObject(value) THEN Undefined
         ELSE FixObject(value, schema[t.pureType[1]], schema)

\* fixInputData(data, operationType, schema); args is operationType.__args,
\* the empty function when the operation declares no arguments
FixInputData(data, args, schema) ==
    IF ~isPlainObject(data) THEN data
    ELSE Obj([key \in {k \in ForInKeys(data) : k \in DOMAIN args} |->
                FixValue(GetProp(data, key), args[key], schema)])

-----------------------------------------------------------------------------
(* Inputs of the Input Fixer runs *)

\* longest array and largest number of keys of a generated nested value
MaxArrayLen == 2
MaxKeys == 2

UserFields ==
    [name    |-> NonNull(Named("String")),
     age     |-> Named("Int"),
     score   |-> Named("Float"),
     active  |-> Named("Boolean"),
     id      |-> NonNull(Named("ID")),
     tags    |-> ListOf(NonNull(Named("String"))),
     role    |-> Named("Role"),
     friend  |-> Named("User"),
     address |-> NonNull(Named("Address"))]

AddressFields == [zip |-> NonNull(Named("ID")), floor |-> Named("Int")]

\* Role is an enum (no entry) in SchemaA; Address has no entry in SchemaB
SchemaA == [User |-> UserFields, Address |-> AddressFields]
SchemaB == [User |-> UserFields, Role |-> [level |-> Named("Int")]]

NoArgs == <<>>

\* the (operationType.__args, schema) pairs explored
FixCases ==
    << [args |-> [data |-> NonNull(Named("User")), flag |-> Named("Boolean")],
        schema |-> SchemaA],
       [args |-> [data |-> NonNull(Named("User")), flag |-> Named("Boolean")],
        schema |-> SchemaB],
       [args |-> [data |-> NonNull(ListOf(NonNull(Named("Int"))))], schema |-> SchemaA],
       [args |-> [data |-> ListOf(NonNull(Named("User")))], schema |-> SchemaA],
       [args |-> [data |-> Named("Role")], schema |-> SchemaA],
       [args |-> [data |-> Named("Int")], schema |-> SchemaA],
       [args |-> [data |-> NonNull(Named("Float"))], schema |-> SchemaA],
       [args |-> [data |-> Named("String")], schema |-> SchemaA],
       [args |-> [data |-> NonNull(Named("ID"))], schema |-> SchemaB],
       [args |-> [data |-> Named("Boolean")], schema |-> SchemaA],
       [args |-> [data |-> ListOf(ListOf(Named("Int")))], schema |-> SchemaA],
       [args |-> NoArgs, schema |-> SchemaA] >>

Leaves ==
    {Null, Undefined, Num(0), Num(20), Num(15), Num(-4), Num(-15), NaN, Infinity,
     Str(<<>>), Str(<<"1", "2">>), Str(<<"1", ".", "5">>), Str(<<"-", "3">>),
     Str(<<" ", "7", " ">>), Str(<<"a", "b", "c">>), Bool(TRUE), Bool(FALSE)}

SmallLeaves == {Null, Num(15), Str(<<"7">>), Str(<<"a", "b", "c">>), Bool(FALSE)}

InnerKeys == {"age", "name", "role", "zz"}
OuterKeys == {"friend", "tags", "role", "address", "zz"}

Arrays1 == {Arr(items) : items \in UNION {[1..n -> SmallLeaves] : n \in 0..MaxArrayLen}}

Objects1 ==
    {Obj(f) : f \in UNION {[ks -> SmallLeaves] :
                    ks \in {x \in SUBSET InnerKeys : Cardinality(x) <= MaxKeys}}}

Values1 == Leaves \cup Arrays1 \cup Objects1

Values2 ==
    Values1
    \cup {Obj([key \in {k} |-> v]) : k \in OuterKeys, v \in Values1}
    \cup {Arr(<<v>>) : v \in Values1}

TopData ==
    {Null, Undefined, Num(15), Str(<<"a", "b">>), Arr(<<Obj([zz |-> Num(10)])>>)}
    \cup {Obj([data |-> v]) : v \in Values2}
    \cup {Obj([data |-> v, extra |-> Num(10)]) : v \in Values2}
    \cup {Obj([data |-> v, flag |-> Str(<<"n", "o">>)]) : v \in Values1}

-----------------------------------------------------------------------------
(* Specification of the Input Fixer runs: fixInputData is applied to an    *)
(* input (as buildInput of runOperation does), then to its own output.     *)

\* fixInputData(input, type, gqlessSchema)
FixOnce ==
    /\ fx.pc = "input"
    /\ fx' = [fx EXCEPT !.pc = "fixed",
                        !.out1 = FixInputData(fx.data, FixCases[fx.op].args,
                                              FixCases[fx.op].schema)]
    /\ UNCHANGED <<batchVars, vx>>

\* fixInputData applied to the data it returned
FixAgain ==
    /\ fx.pc = "fixed"
    /\ fx' = [fx EXCEPT !.pc = "refixed",
                        !.out2 = FixInputData(fx.out1, FixCases[fx.op].args,
                                              FixCases[fx.op].schema)]
    /\ UNCHANGED <<batchVars, vx>>

FixInit ==
    /\ queryBatchTimeMS = DefaultQueryBatchTimeMS
    /\ ops = <<>>
    /\ lastMethod = ""
    /\ requests = <<>>
    /\ hTimeout = 0
    /\ timers = {}
    /\ timerSeq = 0
    /\ cycles = <<>>
    /\ calls = <<>>
    /\ settled = <<>>
    /\ vx = VxIdle
    /\ \E data \in TopData, op \in DOMAIN FixCases :
          fx = [pc |-> "input", data |-> data, op |-> op,
                out1 |-> Undefined, out2 |-> Undefined]

FixNext == FixOnce \/ FixAgain

FixSpec == FixInit /\ [][FixNext]_vars

FixArgs == FixCases[fx.op].args
FixSchema == FixCases[fx.op].schema

-----------------------------------------------------------------------------
(* C8: fixing already fixed data returns it unchanged:                     *)
(* fix(fix(x, T, S), T, S) = fix(x, T, S).                                 *)
C8_Idempotent == fx.pc = "refixed" => fx.out2 = fx.out1

C8_Witness ==
    /\ fx.pc = "refixed"
    /\ fx.out1 # fx.data
    /\ fx.out1.k = "obj"
    /\ "data" \in DOMAIN fx.out1.f
    /\ fx.out1.f.data.k = "obj"
    /\ fx.out2 = fx.out1

RECURSIVE HasKeys(_)
\* the value holds an object key at some depth
HasKeys(v) ==
    CASE v.k = "obj" -> DOMAIN v.f # {}
      [] v.k = "arr" -> \E i \in DOMAIN v.items : HasKeys(v.items[i])
      [] OTHER -> FALSE

RECURSIVE PrunedValue(_, _, _, _)
\* every key of the output value v at a position of type typeName is a field
\* of the schema type at its position; `strict` also forbids keys beneath a
\* pure type that has no schema entry
PrunedValue(v, typeName, schema, strict) ==
    IF IsNullish(v) THEN TRUE
    ELSE LET t == ParseSchemaType(typeName) IN
         IF t.isArray THEN
            /\ v.k = "arr"
            /\ \A i \in DOMAIN v.items : PrunedValue(v.items[i], t.pureType, schema, strict)
         ELSE IF isScalar(t.pureType) THEN ~HasKeys(v)
         ELSE IF ~HasTypeObject(schema, t.pureType) THEN (strict => ~HasKeys(v))
         ELSE /\ v.k = "obj"
              /\ DOMAIN v.f \subseteq DOMAIN schema[t.pureType[1]]
              /\ \A key \in DOMAIN v.f :
                    PrunedValue(v.f[key], schema[t.pureType[1]][key], schema, strict)

PrunedData(out, args, schema, strict) ==
    /\ out.k = "obj"
    /\ DOMAIN out.f \subseteq DOMAIN args
    /\ \A key \in DOMAIN out.f : PrunedValue(out.f[key], args[key], schema, strict)

(* C9 as stated: for every input object the output holds no key that is    *)
(* absent from the schema, at any nesting depth.                           *)
C9_NoUnknownKeyAnywhere ==
    (fx.pc = "fixed" /\ isPlainObject(fx.data)) =>
        PrunedData(fx.out1, FixArgs, FixSchema, TRUE)

(* C9 amended: for every input object the output holds no top-level key    *)
(* without a matching argument and, inside every nested object whose pure  *)
(* type has a schema entry (also inside arrays), no key that is not a      *)
(* field of that type; a value whose pure type has no schema entry is      *)
(* passed through with all its keys.                                       *)
C9_PrunedToSchema ==
    (fx.pc = "fixed" /\ isPlainObject(fx.data)) =>
        PrunedData(fx.out1, FixArgs, FixSchema, FALSE)

C9_Witness ==
    /\ fx.pc = "fixed"
    /\ fx.data.k = "obj"
    /\ "extra" \in DOMAIN fx.data.f
    /\ fx.data.f.data.k = "obj"
    /\ DOMAIN fx.data.f.data.f = {"friend"}
    /\ fx.data.f.data.f.friend.k = "obj"
    /\ "zz" \in DOMAIN fx.data.f.data.f.friend.f
    /\ DOMAIN fx.out1.f = {"data"}
    /\ fx.out1.f.data.k = "obj"
    /\ DOMAIN fx.out1.f.data.f = {"friend"}
    /\ DOMAIN fx.out1.f.data.f.friend.f = {"age"}

\* the native kind a scalar demands; `lax` lets Int be a non-finite number
HasScalarKind(v, pureType, lax) ==
    CASE pureType = Named("Int") ->
            v.k = "num" /\ (NumberIsInteger(v) \/ (lax /\ v.c # "fin"))
      [] pureType = Named("Float") -> v.k = "num"
      [] pureType \in {Named("String"), Named("ID")} -> v.k = "str"
      [] pureType = Named("Boolean") -> v.k = "bool"

RECURSIVE ScalarsOK(_, _, _, _, _)
\* every non-null scalar leaf of the output has the demanded kind, and is the
\* input value itself when that already had it
ScalarsOK(in, out, typeName, schema, lax) ==
    IF IsNullish(out) THEN TRUE
    ELSE LET t == ParseSchemaType(typeName) IN
         IF t.isArray THEN
            /\ out.k = "arr" /\ in.k = "arr"
            /\ Len(out.items) = Len(in.items)
            /\ \A i \in DOMAIN out.items :
                  ScalarsOK(in.items[i], out.items[i], t.pureType, schema, lax)
         ELSE IF isScalar(t.pureType) THEN
            /\ HasScalarKind(out, t.pureType, lax)
            /\ HasScalarKind(in, t.pureType, lax) => out = in
         ELSE IF ~HasTypeObject(schema, t.pureType) THEN TRUE
         ELSE /\ out.k = "obj"
              /\ \A key \in DOMAIN out.f :
                    /\ key \in ForInKeys(in)
                    /\ ScalarsOK(GetProp(in, key), out.f[key],
                                 schema[t.pureType[1]][key], schema, lax)

ScalarsOKData(in, out, args, schema, lax) ==
    /\ out.k = "obj"
    /\ \A key \in DOMAIN out.f :
          /\ key \in ForInKeys(in)
          /\ ScalarsOK(GetProp(in, key), out.f[key], args[key], schema, lax)

(* C10 as stated: every non-null output at a scalar position has the kind  *)
(* the scalar demands, an integral number for Int, whatever the input was. *)
C10_ScalarKindsStrict ==
    (fx.pc = "fixed" /\ isPlainObject(fx.data)) =>
        ScalarsOKData(fx.data, fx.out1, FixArgs, FixSchema, FALSE)

(* C10 amended: every non-null output at a scalar position is a number for *)
(* Int and Float, a string for String and ID, a boolean for Boolean; for   *)
(* Int the number is integral whenever it is finite (an input that does    *)
(* not convert to a finite number gives NaN or an infinity); a value that  *)
(* already has the demanded kind is output unchanged.                      *)
C10_ScalarKinds ==
    (fx.pc = "fixed" /\ isPlainObject(fx.data)) =>
        ScalarsOKData(fx.data, fx.out1, FixArgs, FixSchema, TRUE)

C10_Witness ==
    /\ fx.pc = "fixed"
    /\ FixArgs = [data |-> Named("Int")]
    /\ fx.data = Obj([data |-> Str(<<"a", "b", "c">>)])
    /\ fx.out1 = Obj([data |-> NaN])

RECURSIVE DiscardedOK(_, _, _, _)
\* every non-null input value whose shape does not match its type came out
\* as undefined: a non-array at an array type, a non-object at an object
\* type that has a schema entry
DiscardedOK(in, out, typeName, schema) ==
    IF IsNullish(in) THEN TRUE
    ELSE LET t == ParseSchemaType(typeName) IN
         IF t.isArray THEN
            IF in.k # "arr" THEN out = Undefined
            ELSE /\ out.k = "arr"
                 /\ Len(out.items) = Len(in.items)
                 /\ \A i \in DOMAIN in.items :
                       DiscardedOK(in.items[i], out.items[i], t.pureType, schema)
         ELSE IF isScalar(t.pureType) THEN TRUE
         ELSE IF ~HasTypeObject(schema, t.pureType) THEN TRUE
         ELSE IF in.k # "obj" THEN out = Undefined
         ELSE /\ out.k = "obj"
              /\ \A key \in DOMAIN out.f :
                    DiscardedOK(in.f[key], out.f[key],
                                schema[t.pureType[1]][key], schema)

(* C11: a non-null value whose shape does not match its type is discarded  *)
(* (undefined is returned for it): at an array type every value that is    *)
(* not an array, at an object type with a schema entry every value that is *)
(* a number, a string, a boolean or an array.                              *)
C11_MismatchDiscarded ==
    (fx.pc = "fixed" /\ fx.data.k = "obj") =>
        \A key \in DOMAIN fx.out1.f :
            DiscardedOK(fx.data.f[key], fx.out1.f[key], FixArgs[key], FixSchema)

-----------------------------------------------------------------------------
(* Required-Field Validator (validateRequiredInputData)                    *)
(* A field path is its sequence of segments and "." separators:            *)
(* "address.0.zip" is <<"address", ".", "0", ".", "zip">>, "" is <<>>.     *)

\* `${index}` of an array index (indices 0..9)
IndexToken(i) == DigitChars[i]

\* appendFieldPath(current, fieldPath)
appendFieldPath(current, fieldPath) ==
    IF current = <<>> THEN <<fieldPath>> ELSE current \o <<".", fieldPath>>

\* value[key] for a key of the type: undefined when the value has no such key
PropOf(value, key) ==
    IF value.k = "obj" /\ key \in DOMAIN value.f THEN value.f[key] ELSE Undefined

TopFieldPathWithArg(key) == <<key>>

\* validateValue(value, "", argTypeName, schema, context): the field path
\* every top-level argument starts from
TopFieldPath(key) == <<>>

ItemErrorsFirstOnly(value, fieldPath) ==
    LET nulls == {j \in DOMAIN value.items : IsNullish(value.items[j])} IN
    {appendFieldPath(fieldPath, IndexToken(i)) :
        i \in {j \in nulls : \A j2 \in nulls : j <= j2}}

\* "check that every item is not nullish": one error per nullish item
ItemErrors(value, fieldPath) ==
    {appendFieldPath(fieldPath, IndexToken(i)) :
        i \in {j \in DOMAIN value.items : IsNullish(value.items[j])}}

RECURSIVE ValidateValue(_, _, _, _)

MissingErrorsDescend(fieldPath, typeName, schema) ==
    LET t == ParseSchemaType(typeName) IN
    {fieldPath} \cup
    (IF ~t.isArray /\ HasTypeObject(schema, t.pureType)
     THEN UNION {ValidateValue(Undefined, appendFieldPath(fieldPath, key),
                               schema[t.pureType[1]][key], schema) :
                    key \in DOMAIN schema[t.pureType[1]]}
     ELSE {})

\* "If required and value is nullish, then add error" and return
MissingErrors(fieldPath, typeName, schema) == {fieldPath}

\* validateValue(value, fieldPath, typeName, schema, context): the paths it
\* adds to context.validationErrors
ValidateValue(value, fieldPath, typeName, schema) ==
    LET t == ParseSchemaType(typeName) IN
    IF ~t.isNullable /\ IsNullish(value)
    THEN MissingErrors(fieldPath, typeName, schema)
    ELSE
      (IF t.isArray /\ ~t.nullableItems /\ value.k = "arr"
       THEN ItemErrors(value, fieldPath) ELSE {})
      \cup
      (IF t.isArray THEN
          IF value.k = "arr"
          THEN UNION {ValidateValue(value.items[i],
                                    appendFieldPath(fieldPath, IndexToken(i)),
                                    t.pureType, schema) : i \in DOMAIN value.items}
          ELSE {}
       ELSE IF isScalar(t.pureType) THEN {}
       ELSE IF ~HasTypeObject(schema, t.pureType) THEN {}
       ELSE IF ~isPlainObject(value) THEN {}
       ELSE UNION {ValidateValue(PropOf(value, key),
                                 appendFieldPath(fieldPath, key),
                                 schema[t.pureType[1]][key], schema) :
                      key \in DOMAIN schema[t.pureType[1]]})

\* the loop "Validate every arg": the paths each argument's validateValue
\* call adds
ValidateArgs(data, args, schema) ==
    [key \in DOMAIN args |->
        ValidateValue(PropOf(data, key), TopFieldPath(key), args[key], schema)]

RequiredMessage == "required"

\* validateRequiredInputData(data, operationType, schema, requiredErrorMessage)
ValidateRequiredInputData(data, args, schema) ==
    IF ~isPlainObject(data) THEN Undefined
    ELSE LET perArg == ValidateArgs(data, args, schema)
             keys   == UNION {perArg[a] : a \in DOMAIN args}
         IN IF keys # {}
            THEN [k |-> "map", m |-> [p \in keys |-> RequiredMessage]]
            ELSE Undefined

-----------------------------------------------------------------------------
(* Inputs of the validator runs *)

\* longest array of scalars validated
MaxValArrayLen == 3

Absent == [k |-> "absent"]

\* the object with the keys of f whose value is not Absent
MkObj(f) == Obj([key \in {x \in DOMAIN f : f[x] # Absent} |-> f[key]])

ValCases ==
    << [args |-> [name |-> NonNull(Named("String"))], schema |-> SchemaA],
       [args |-> [data |-> NonNull(ListOf(NonNull(Named("Int"))))], schema |-> SchemaA],
       [args |-> [data |-> NonNull(Named("User"))], schema |-> SchemaA],
       [args |-> [a |-> NonNull(Named("User")), b |-> NonNull(Named("User"))],
        schema |-> SchemaA],
       [args |-> [data |-> ListOf(NonNull(Named("User")))], schema |-> SchemaA],
       [args |-> [data |-> NonNull(ListOf(Named("User")))], schema |-> SchemaA],
       [args |-> [data |-> NonNull(Named("Role"))], schema |-> SchemaA],
       [args |-> NoArgs, schema |-> SchemaA] >>

ValScalarArrays ==
    {Arr(items) : items \in UNION {[1..n -> {Null, Undefined, Num(10), Num(30)}] :
                                       n \in 0..MaxValArrayLen}}

ValAddresses ==
    {Absent, Null, Obj(<<>>), Obj([zip |-> Str(<<"1">>)]), Obj([zip |-> Null]),
     Num(50), Arr(<<>>)}

GoodUser ==
    Obj([name |-> Str(<<"n">>), id |-> Str(<<"1">>),
         address |-> Obj([zip |-> Str(<<"1">>)]), active |-> Bool(TRUE)])

ValFriends == {Absent, Null, Obj(<<>>), GoodUser, Obj([name |-> Null])}

ValUsers ==
    {MkObj([name |-> n, id |-> i, address |-> a, tags |-> t, friend |-> f,
            active |-> Bool(TRUE)]) :
        n \in {Absent, Null, Str(<<"n">>)},
        i \in {Absent, Str(<<"1">>)},
        a \in ValAddresses,
        t \in {Absent, Str(<<"t">>), Arr(<<Str(<<"t">>), Null>>), Arr(<<Null, Null>>)},
        f \in ValFriends}

SmallUsers ==
    {Null, GoodUser, Obj(<<>>), Obj([name |-> Null, id |-> Str(<<"1">>)]),
     MkObj([name |-> Str(<<"n">>), id |-> Str(<<"1">>), address |-> Null,
            active |-> Bool(TRUE)]),
     MkObj([name |-> Str(<<"n">>), id |-> Str(<<"1">>), address |-> Obj(<<>>),
            active |-> Bool(TRUE)])}

ValUserArrays ==
    {Arr(items) : items \in UNION {[1..n -> SmallUsers] : n \in 0..MaxArrayLen}}

ValTopData ==
    {Null, Undefined, Num(15), Arr(<<>>), Obj(<<>>),
     Obj([name |-> Null]), Obj([name |-> Str(<<"n">>)]), Obj([data |-> Null])}
    \cup {Obj([data |-> v]) : v \in ValScalarArrays \cup ValUsers \cup ValUserArrays}
    \cup {MkObj([a |-> x, b |-> y]) : x, y \in SmallUsers \cup {Absent}}

-----------------------------------------------------------------------------
(* Specification of the validator runs *)

ValArgs == ValCases[vx.op].args
ValSchema == ValCases[vx.op].schema

\* validateRequiredInputData(data, operationType, schema, message)
ValidateOnce ==
    /\ vx.pc = "input"
    /\ vx' = [vx EXCEPT
                !.pc = "validated",
                !.perArg = IF isPlainObject(vx.data)
                           THEN ValidateArgs(vx.data, ValArgs, ValSchema)
                           ELSE [a \in DOMAIN ValArgs |-> {}],
                !.result = ValidateRequiredInputData(vx.data, ValArgs, ValSchema)]
    /\ UNCHANGED <<batchVars, fx>>

ValInit ==
    /\ queryBatchTimeMS = DefaultQueryBatchTimeMS
    /\ ops = <<>>
    /\ lastMethod = ""
    /\ requests = <<>>
    /\ hTimeout = 0
    /\ timers = {}
    /\ timerSeq = 0
    /\ cycles = <<>>
    /\ calls = <<>>
    /\ settled = <<>>
    /\ fx = FxIdle
    /\ \E data \in ValTopData, op \in DOMAIN ValCases :
          vx = [pc |-> "input", data |-> data, op |-> op,
                perArg |-> <<>>, result |-> Undefined]

ValNext == ValidateOnce

ValSpec == ValInit /\ [][ValNext]_vars

\* the keys of the returned mapping (none when it returned undefined)
ValKeys == IF vx.result.k = "map" THEN DOMAIN vx.result.m ELSE {}

-----------------------------------------------------------------------------
(* Vocabulary of the validator properties *)

\* the segments of a field path, and whether "." joins them
Segs(path) == [i \in 1..((Len(path) + 1) \div 2) |-> path[2 * i - 1]]

WellJoined(path) ==
    path = <<>> \/ (Len(path) % 2 = 1 /\ \A i \in DOMAIN path :
                        (i % 2 = 0) <=> (path[i] = "."))

RECURSIVE ResolvesToViolation(_, _, _, _, _)
\* following the segments from `value` (of type typeName) through fields of
\* the schema types and array indices ends at a null or absent value that
\* is required (non-nullable type, or item of a non-nullable-items array)
ResolvesToViolation(value, typeName, segs, schema, requiredItem) ==
    LET t == ParseSchemaType(typeName) IN
    IF segs = <<>> THEN IsNullish(value) /\ (~t.isNullable \/ requiredItem)
    ELSE IF IsNullish(value) THEN FALSE
    ELSE IF t.isArray THEN
        /\ value.k = "arr"
        /\ \E i \in DOMAIN value.items :
              /\ segs[1] = IndexToken(i)
              /\ ResolvesToViolation(value.items[i], t.pureType, Tail(segs),
                                     schema, ~t.nullableItems)
    ELSE /\ HasTypeObject(schema, t.pureType)
         /\ segs[1] \in DOMAIN schema[t.pureType[1]]
         /\ ResolvesToViolation(PropOf(value, segs[1]),
                                schema[t.pureType[1]][segs[1]], Tail(segs),
                                schema, FALSE)

RECURSIVE Nodes(_, _, _, _)
\* the nodes of the input the traversal visits, with their path and type
Nodes(value, path, typeName, schema) ==
    LET t == ParseSchemaType(typeName) IN
    {[p |-> path, v |-> value, t |-> typeName]} \cup
    (IF IsNullish(value) THEN {}
     ELSE IF t.isArray THEN
        IF value.k = "arr"
        THEN UNION {Nodes(value.items[i], appendFieldPath(path, IndexToken(i)),
                          t.pureType, schema) : i \in DOMAIN value.items}
        ELSE {}
     ELSE IF isScalar(t.pureType) \/ ~HasTypeObject(schema, t.pureType) THEN {}
     ELSE IF value.k = "arr" THEN {}
     ELSE UNION {Nodes(PropOf(value, key), appendFieldPath(path, key),
                       schema[t.pureType[1]][key], schema) :
                    key \in DOMAIN schema[t.pureType[1]]})

ArgNodes(a) == Nodes(PropOf(vx.data, a), <<>>, ValArgs[a], ValSchema)

StrictlyBeneath(q, p) ==
    /\ Len(q) > Len(p)
    /\ SubSeq(q, 1, Len(p)) = p
    /\ (p = <<>> \/ q[Len(p) + 1] = ".")

Validated == vx.pc = "validated" /\ isPlainObject(vx.data)

(* C12: the keys of the returned mapping never start from the argument     *)
(* name: a null or absent non-nullable top-level argument is recorded      *)
(* under the empty path ({name: null} against name: String! gives the      *)
(* single key ""), and every other key is the "."-joined sequence of the   *)
(* nested field and index segments that lead, from some argument's value,  *)
(* to a missing required value.                                            *)
C12_PathsOmitArgName ==
    Validated =>
        /\ \A a \in DOMAIN ValArgs :
              (~ParseSchemaType(ValArgs[a]).isNullable /\ IsNullish(PropOf(vx.data, a)))
                  => <<>> \in ValKeys
        /\ \A key \in ValKeys :
              /\ WellJoined(key)
              /\ \E a \in DOMAIN ValArgs :
                    ResolvesToViolation(PropOf(vx.data, a), ValArgs[a], Segs(key),
                                        ValSchema, FALSE)
        /\ (ValArgs = [name |-> NonNull(Named("String"))] /\ vx.data = Obj([name |-> Null]))
              => ValKeys = {<<>>}

C12_Witness ==
    /\ vx.pc = "validated"
    /\ ValArgs = [name |-> NonNull(Named("String"))]
    /\ vx.data = Obj([name |-> Null])
    /\ vx.result = [k |-> "map", m |-> [p \in {<<>>} |-> RequiredMessage]]

(* C13: for an array validated against a type with non-nullable items, an  *)
(* element's index path is recorded exactly when the element is null, and  *)
(* the other elements are still validated (their missing required fields   *)
(* are recorded beneath their index); [1, null, 3] against [Int!]! gives   *)
(* exactly one violation, at "1".                                          *)
C13_ArrayNulls ==
    Validated =>
        /\ \A a \in DOMAIN ValArgs : \A n \in ArgNodes(a) :
              LET t == ParseSchemaType(n.t) IN
              (t.isArray /\ ~t.nullableItems /\ n.v.k = "arr") =>
                  \A i \in DOMAIN n.v.items :
                      LET item == n.v.items[i]
                          pi   == appendFieldPath(n.p, IndexToken(i))
                      IN /\ IsNullish(item) <=> pi \in vx.perArg[a]
                         /\ (item.k = "obj" /\ HasTypeObject(ValSchema, t.pureType)) =>
                               \A key \in DOMAIN ValSchema[t.pureType[1]] :
                                   ( /\ ~ParseSchemaType(ValSchema[t.pureType[1]][key]).isNullable
                                     /\ IsNullish(PropOf(item, key)) )
                                   => appendFieldPath(pi, key) \in vx.perArg[a]
        /\ (ValArgs = [data |-> NonNull(ListOf(NonNull(Named("Int"))))]
              /\ PropOf(vx.data, "data").k = "arr") =>
              ValKeys = {<<IndexToken(i)>> :
                            i \in {j \in DOMAIN vx.data.f.data.items :
                                      IsNullish(vx.data.f.data.items[j])}}

C13_Witness ==
    /\ vx.pc = "validated"
    /\ ValArgs = [data |-> NonNull(ListOf(NonNull(Named("Int"))))]
    /\ vx.data = Obj([data |-> Arr(<<Num(10), Null, Num(30)>>)])
    /\ ValKeys = {<<"1">>}

(* C14: at a node whose type is non-nullable and whose value is null or    *)
(* absent, the validator records the node's path and, for that branch, no  *)
(* path strictly beneath it, also when the node's type has non-nullable    *)
(* fields of its own.                                                      *)
C14_StopsAtMissing ==
    Validated =>
        \A a \in DOMAIN ValArgs : \A n \in ArgNodes(a) :
            (IsNullish(n.v) /\ ~ParseSchemaType(n.t).isNullable) =>
                /\ n.p \in vx.perArg[a]
                /\ n.p \in ValKeys
                /\ \A q \in vx.perArg[a] : ~StrictlyBeneath(q, n.p)

C14_Witness ==
    /\ vx.pc = "validated"
    /\ ValArgs = [data |-> NonNull(Named("User"))]
    /\ vx.data.k = "obj"
    /\ PropOf(vx.data, "data").k = "obj"
    /\ PropOf(PropOf(vx.data, "data"), "address") = Null
    /\ PropOf(PropOf(vx.data, "data"), "name") = Null
    /\ ValKeys = {<<"address">>, <<"name">>, <<"id">>}

====

